---- MODULE Spec2Model ----
(***************************************************************************)
(* PStream: HLS playlist generation from channel pages.                    *)
(*                                                                         *)
(*   generate.py           info_to_text, build_playlists, main             *)
(*   utils.py              stream_info_to_extinf, build_master_and_best    *)
(*   eurostartv_plugin.py  EurostarTV._get_streams and its finders         *)
(*                                                                         *)
(* A text is a sequence of tokens; string concatenation is \o.  A token is *)
(* a record [t, v]: t the literal part, v the numbers printed after it.    *)
(* Four specifications share the module: SpecRender (one STREAM-INF line), *)
(* SpecSynth (the two playlist builders), SpecResolve (the plugin) and     *)
(* SpecRun (the batch loop of main).                                       *)
(***************************************************************************)
EXTENDS Integers, Sequences, FiniteSets, TLC

VARIABLES
    \* SpecRender
    stream_info,      \* the stream_info handed to the two renderers
    gen_line,         \* info_to_text(stream_info, url), <<>> before the call
    utl_line,         \* stream_info_to_extinf(stream_info, url), <<>> before the call
    \* SpecSynth and SpecRun
    streams,          \* the streams dict handed to the builders
    gen_res,          \* build_playlists(streams)
    utl_res,          \* build_master_and_best(streams)
    \* SpecRun
    run_pc, channels, idx, success, fail, processed,
    master_files, best_files, exit_code,
    \* SpecResolve
    res_pc, html, html2, iframe_url, fetched, tried, result

render_vars  == <<stream_info, gen_line, utl_line>>
synth_vars   == <<streams, gen_res, utl_res>>
run_vars     == <<run_pc, channels, idx, success, fail, processed,
                  master_files, best_files, exit_code>>
resolve_vars == <<res_pc, html, html2, iframe_url, fetched, tried, result>>
vars == <<render_vars, synth_vars, run_vars, resolve_vars>>

----------------------------------------------------------------------------
(* Bounds *)

MaxLen == 3         \* variants in one multivariant playlist (SpecSynth)
MaxHeight == 3      \* distinct positive resolution heights
MaxCodecs == 2      \* entries of a CODECS list
MaxRunLen == 1      \* variants per playlist in the batch loop (SpecRun)
MaxChannels == 3    \* channels of the configuration
MaxItems == 2       \* pattern occurrences in one fetched text

----------------------------------------------------------------------------
(* Texts *)

Tok(t, v) == [t |-> t, v |-> v]
NL == Tok("\n", <<>>)
Comma == Tok(",", <<>>)
UriTok(u) == Tok("uri", <<u>>)

NoRes == [present |-> FALSE, width |-> 0, height |-> 0]
Res(w, h) == [present |-> TRUE, width |-> w, height |-> h]

\* StreamInfo of streamlink: program_id and bandwidth 0 stand for None/0
\* (both falsy), codecs <<>> for None or the empty list.
Info(p, b, c, r, v) ==
    [none |-> FALSE, program_id |-> p, bandwidth |-> b, codecs |-> c,
     resolution |-> r, video |-> v]
NoInfo ==
    [none |-> TRUE, program_id |-> 0, bandwidth |-> 0, codecs |-> <<>>,
     resolution |-> NoRes, video |-> "none"]

----------------------------------------------------------------------------
(* generate.py: info_to_text *)

info_to_text(info, url) ==
    <<Tok("#EXT-X-STREAM-INF:", <<>>)>>
    \o (IF info.program_id # 0
        THEN <<Tok("PROGRAM-ID=", <<info.program_id>>), Comma>> ELSE <<>>)
    \o (IF info.bandwidth # 0
        THEN <<Tok("BANDWIDTH=", <<info.bandwidth>>), Comma>> ELSE <<>>)
    \o (IF info.codecs # <<>>
        THEN <<Tok("CODECS=", info.codecs), Comma>> ELSE <<>>)
    \o (IF info.resolution.present /\ info.resolution.width # 0
        THEN <<Tok("RESOLUTION=",
                   <<info.resolution.width, info.resolution.height>>)>>
        ELSE <<>>)
    \o <<NL, UriTok(url), NL>>

(* utils.py: stream_info_to_extinf *)

stream_info_to_extinf(info, url) ==
    <<Tok("#EXT-X-STREAM-INF:", <<>>)>>
    \o (IF info.program_id # 0
        THEN <<Tok("PROGRAM-ID=", <<info.program_id>>), Comma>> ELSE <<>>)
    \o (IF info.bandwidth # 0
        THEN <<Tok("BANDWIDTH=", <<info.bandwidth>>), Comma>> ELSE <<>>)
    \o (IF info.codecs # <<>>
        THEN <<Tok("CODECS=", info.codecs), Comma>> ELSE <<>>)
    \o (IF /\ info.resolution.present
           /\ info.resolution.width # 0
           /\ info.resolution.height # 0
        THEN <<Tok("RESOLUTION=",
                   <<info.resolution.width, info.resolution.height>>)>>
        ELSE <<>>)
    \o <<NL, UriTok(url), NL>>

----------------------------------------------------------------------------
(* The streams dict and the multivariant playlist *)

Playlist(u, info) == [uri |-> u, stream_info |-> info]
NoMV == [none |-> TRUE, version |-> 0, playlists |-> <<>>]
MV(ver, pls) == [none |-> FALSE, version |-> ver, playlists |-> pls]
\* empty: the dict is empty; has_best: it holds the key "best".
Streams(e, b, mv) == [empty |-> e, has_best |-> b, multivariant |-> mv]

None2 == [none |-> TRUE, master |-> <<>>, best |-> <<>>]
Pair(m, b) == [none |-> FALSE, master |-> m, best |-> b]

VersionLine(mv) ==
    IF mv.version # 0 THEN <<Tok("#EXT-X-VERSION:", <<mv.version>>), NL>> ELSE <<>>
ExtM3U == <<Tok("#EXTM3U", <<>>), NL>>

(* generate.py: build_playlists *)

gen_height(info) ==
    IF info.resolution.present THEN info.resolution.height ELSE 0

RECURSIVE gen_loop(_, _, _, _, _)
gen_loop(pls, k, previous_res_height, master_text, best_text) ==
    IF k > Len(pls) THEN [master |-> master_text, best |-> best_text]
    ELSE LET info == pls[k].stream_info IN
         IF info.none \/ info.video = "audio_only"
         THEN gen_loop(pls, k + 1, previous_res_height, master_text, best_text)
         ELSE LET sub_text == info_to_text(info, pls[k].uri)
                  height == gen_height(info)
              IN IF height > previous_res_height
                 THEN gen_loop(pls, k + 1, height, sub_text \o master_text, sub_text)
                 ELSE gen_loop(pls, k + 1, height, master_text \o sub_text, best_text)

\* build_playlists without the "if not master_text" return
build_playlists_header_only(s) ==
    IF ~s.has_best THEN None2
    ELSE LET mv == s.multivariant IN
         IF mv.none \/ mv.playlists = <<>> THEN None2
         ELSE LET r == gen_loop(mv.playlists, 1, 0, <<>>, <<>>) IN
              Pair(ExtM3U \o VersionLine(mv) \o r.master,
                   ExtM3U \o VersionLine(mv) \o r.best)

build_playlists(s) ==
    IF ~s.has_best THEN None2
    ELSE LET mv == s.multivariant IN
         IF mv.none \/ mv.playlists = <<>> THEN None2
         ELSE LET r == gen_loop(mv.playlists, 1, 0, <<>>, <<>>) IN
              IF r.master = <<>> THEN None2
              ELSE Pair(ExtM3U \o VersionLine(mv) \o r.master,
                        ExtM3U \o VersionLine(mv) \o r.best)

(* utils.py: build_master_and_best *)

height_of(pl) ==
    IF pl.stream_info.none THEN 0
    ELSE IF pl.stream_info.resolution.present
         THEN pl.stream_info.resolution.height ELSE 0

\* sorted(..., key=height_of, reverse=True): stable, equal keys keep their order.
RECURSIVE InsertDesc(_, _)
InsertDesc(sorted, pl) ==
    IF sorted = <<>> THEN <<pl>>
    ELSE IF height_of(Head(sorted)) >= height_of(pl)
         THEN <<Head(sorted)>> \o InsertDesc(Tail(sorted), pl)
         ELSE <<pl>> \o sorted

RECURSIVE SortedDesc(_, _)
SortedDesc(pls, k) ==
    IF k = 0 THEN <<>> ELSE InsertDesc(SortedDesc(pls, k - 1), pls[k])

RECURSIVE utl_loop(_, _, _, _)
utl_loop(playlists, i, master_text, best_text) ==
    IF i > Len(playlists) THEN [master |-> master_text, best |-> best_text]
    ELSE LET info == playlists[i].stream_info IN
         IF info.none \/ info.video = "audio_only"
         THEN utl_loop(playlists, i + 1, master_text, best_text)
         ELSE LET sub == stream_info_to_extinf(info, playlists[i].uri) IN
              utl_loop(playlists, i + 1, master_text \o sub,
                       IF i = 1 THEN sub ELSE best_text)

build_master_and_best(s) ==
    IF ~s.has_best THEN None2
    ELSE LET mv == s.multivariant IN
         IF mv.none \/ mv.playlists = <<>> THEN None2
         ELSE LET playlists == SortedDesc(mv.playlists, Len(mv.playlists))
                  r == utl_loop(playlists, 1, <<>>, <<>>)
              IN IF r.master = <<>> \/ r.best = <<>> THEN None2
                 ELSE Pair(ExtM3U \o VersionLine(mv) \o r.master,
                           ExtM3U \o VersionLine(mv) \o r.best)

----------------------------------------------------------------------------
(* Values of the variables a specification does not use *)

NotCalled == [called |-> FALSE, val |-> None2]
Returned(v) == [called |-> TRUE, val |-> v]

IdleRender ==
    /\ stream_info = NoInfo
    /\ gen_line = <<>>
    /\ utl_line = <<>>

IdleSynth ==
    /\ streams = Streams(TRUE, FALSE, NoMV)
    /\ gen_res = NotCalled
    /\ utl_res = NotCalled

IdleRun ==
    /\ run_pc = "idle"
    /\ channels = 0
    /\ idx = 0
    /\ success = 0
    /\ fail = 0
    /\ processed = <<>>
    /\ master_files = {}
    /\ best_files = {}
    /\ exit_code = -1

IdleResolve ==
    /\ res_pc = "idle"
    /\ html = <<>>
    /\ html2 = <<>>
    /\ iframe_url = [id |-> 0, shape |-> "none", host |-> ""]
    /\ fetched = <<>>
    /\ tried = <<>>
    /\ result = [kind |-> "pending", url |-> [id |-> 0, shape |-> "none", host |-> ""]]

----------------------------------------------------------------------------
(* SpecRender: one stream_info through both renderers *)

CodecLists == {[i \in 1..n |-> i] : n \in 0..MaxCodecs}
\* parse_resolution of streamlink yields Resolution(0, 0) for a value it
\* cannot read, so a present resolution may hold zeros.
RenderResolutions == {NoRes, Res(0, 0), Res(2, 1)}
RenderInfos ==
    {Info(p, b, c, r, "video") :
        p \in {0, 1}, b \in {0, 1}, c \in CodecLists, r \in RenderResolutions}

RenderUrl == 1

InitRender ==
    /\ stream_info \in RenderInfos
    /\ gen_line = <<>>
    /\ utl_line = <<>>
    /\ IdleSynth /\ IdleRun /\ IdleResolve

CallInfoToText ==
    /\ gen_line = <<>>
    /\ gen_line' = info_to_text(stream_info, RenderUrl)
    /\ UNCHANGED <<stream_info, utl_line, synth_vars, run_vars, resolve_vars>>

CallStreamInfoToExtinf ==
    /\ utl_line = <<>>
    /\ utl_line' = stream_info_to_extinf(stream_info, RenderUrl)
    /\ UNCHANGED <<stream_info, gen_line, synth_vars, run_vars, resolve_vars>>

NextRender == CallInfoToText \/ CallStreamInfoToExtinf
SpecRender == InitRender /\ [][NextRender]_vars

----------------------------------------------------------------------------
(* SpecSynth: one streams dict through both builders *)

Resolutions(maxh) == {NoRes} \cup {Res(2 * h, h) : h \in 1..maxh}
VariantInfos(maxh) ==
    {NoInfo} \cup
    {Info(0, 1, <<>>, r, v) : r \in Resolutions(maxh), v \in {"video", "audio_only"}}
\* The playlist at source position k carries uri k.
PlaylistSeqs(maxlen, maxh) ==
    UNION {{[k \in 1..n |-> Playlist(k, f[k])] : f \in [1..n -> VariantInfos(maxh)]} :
           n \in 0..maxlen}
Versions == {0, 3}

InitSynth ==
    /\ \E ver \in Versions, pls \in PlaylistSeqs(MaxLen, MaxHeight) :
          streams = Streams(FALSE, TRUE, MV(ver, pls))
    /\ gen_res = NotCalled
    /\ utl_res = NotCalled
    /\ IdleRender /\ IdleRun /\ IdleResolve

CallBuildPlaylists ==
    /\ ~gen_res.called
    /\ gen_res' = Returned(build_playlists(streams))
    /\ UNCHANGED <<streams, utl_res, render_vars, run_vars, resolve_vars>>

CallBuildMasterAndBest ==
    /\ ~utl_res.called
    /\ utl_res' = Returned(build_master_and_best(streams))
    /\ UNCHANGED <<streams, gen_res, render_vars, run_vars, resolve_vars>>

NextSynth == CallBuildPlaylists \/ CallBuildMasterAndBest
SpecSynth == InitSynth /\ [][NextSynth]_vars

----------------------------------------------------------------------------
(* Reading a playlist text back: its lines and its STREAM-INF/URI pairs *)

FirstNL(text) ==
    IF \E i \in 1..Len(text) : text[i] = NL
    THEN CHOOSE i \in 1..Len(text) :
            text[i] = NL /\ \A j \in 1..(i - 1) : text[j] # NL
    ELSE 0

RECURSIVE Lines(_)
Lines(text) ==
    IF text = <<>> THEN <<>>
    ELSE LET n == FirstNL(text) IN
         IF n = 0 THEN <<text>>
         ELSE <<SubSeq(text, 1, n - 1)>> \o Lines(SubSeq(text, n + 1, Len(text)))

IsInfLine(line) == line # <<>> /\ line[1].t = "#EXT-X-STREAM-INF:"
IsUriLine(line) == Len(line) = 1 /\ line[1].t = "uri"

\* The uris of the STREAM-INF/URI pairs of a text, in the order of the text.
RECURSIVE PairUrisFrom(_, _)
PairUrisFrom(ls, k) ==
    IF k >= Len(ls) THEN <<>>
    ELSE IF IsInfLine(ls[k]) /\ IsUriLine(ls[k + 1])
         THEN <<ls[k + 1][1].v[1]>> \o PairUrisFrom(ls, k + 2)
         ELSE PairUrisFrom(ls, k + 1)
PairUris(text) == PairUrisFrom(Lines(text), 1)

HeaderLen(s) == IF s.multivariant.version # 0 THEN 2 ELSE 1

Pls == streams.multivariant.playlists
NonAudio ==
    {k \in 1..Len(Pls) :
        ~Pls[k].stream_info.none /\ Pls[k].stream_info.video # "audio_only"}
HeightAt(k) ==
    IF Pls[k].stream_info.resolution.present
    THEN Pls[k].stream_info.resolution.height ELSE 0
\* Position of variant k in a stable descending sort of the non-audio variants.
Rank(k) ==
    1 + Cardinality({j \in NonAudio :
                        \/ HeightAt(j) > HeightAt(k)
                        \/ HeightAt(j) = HeightAt(k) /\ j < k})
SeqToSet(q) == {q[i] : i \in 1..Len(q)}

----------------------------------------------------------------------------
(* C1: with at least one non-audio variant, each builder returns a        *)
(* non-empty master body holding exactly one STREAM-INF/URI pair per      *)
(* non-audio variant, none for an audio-only variant, none twice.         *)

MasterListsNonAudioOnce(res) ==
    res.called /\ NonAudio # {} =>
        /\ ~res.val.none
        /\ SeqToSet(PairUris(res.val.master)) = NonAudio
        /\ Len(PairUris(res.val.master)) = Cardinality(NonAudio)

C1_MasterListsEveryNonAudioOnce ==
    MasterListsNonAudioOnce(gen_res) /\ MasterListsNonAudioOnce(utl_res)

(* C2: a non-empty result's best body is the header plus exactly one      *)
(* block, that of the first pair of the master body, which is the tallest *)
(* non-audio variant (earliest in source order among ties).               *)

BestIsTallestBlock(res) ==
    res.called /\ ~res.val.none =>
        /\ Len(Lines(res.val.best)) = HeaderLen(streams) + 2
        /\ PairUris(res.val.best) = <<PairUris(res.val.master)[1]>>
        /\ \A k \in NonAudio : Rank(k) = 1 => PairUris(res.val.best) = <<k>>

C2_BestIsTallestBlock ==
    BestIsTallestBlock(gen_res) /\ BestIsTallestBlock(utl_res)

(* C3: the master body lists the non-audio variants in the order of a     *)
(* stable descending sort by resolution height (no resolution = 0).       *)

MasterIsStableDescending(res) ==
    res.called /\ ~res.val.none =>
        LET us == PairUris(res.val.master) IN
        /\ Len(us) = Cardinality(NonAudio)
        /\ \A k \in NonAudio : us[Rank(k)] = k

C3_MasterIsStableDescending ==
    MasterIsStableDescending(gen_res) /\ MasterIsStableDescending(utl_res)

(* C4: the STREAM-INF line lists the present attributes in the order      *)
(* PROGRAM-ID, BANDWIDTH, CODECS, RESOLUTION, a comma between consecutive *)
(* ones, and no comma as the last character of the line.                  *)

AttrNames == <<"PROGRAM-ID=", "BANDWIDTH=", "CODECS=", "RESOLUTION=">>
Present(info, a) ==
    CASE a = 1 -> info.program_id # 0
      [] a = 2 -> info.bandwidth # 0
      [] a = 3 -> info.codecs # <<>>
      [] a = 4 -> /\ info.resolution.present
                  /\ info.resolution.width > 0
                  /\ info.resolution.height > 0
\* t-parts of the expected line: the tag, then the present attributes with
\* one comma between neighbours.
RECURSIVE ExpectedAttrs(_, _, _)
ExpectedAttrs(info, a, first) ==
    IF a > Len(AttrNames) THEN <<>>
    ELSE IF Present(info, a)
         THEN (IF first THEN <<>> ELSE <<",">>) \o <<AttrNames[a]>>
              \o ExpectedAttrs(info, a + 1, FALSE)
         ELSE ExpectedAttrs(info, a + 1, first)
ExpectedLine(info) == <<"#EXT-X-STREAM-INF:">> \o ExpectedAttrs(info, 1, TRUE)

LineWellFormed(text) ==
    text # <<>> =>
        LET line == Lines(text)[1] IN
        /\ [i \in 1..Len(line) |-> line[i].t] = ExpectedLine(stream_info)
        /\ line[Len(line)] # Comma

C4_NoDanglingComma == LineWellFormed(gen_line) /\ LineWellFormed(utl_line)

----------------------------------------------------------------------------
(* eurostartv_plugin.py: EurostarTV                                        *)
(*                                                                         *)
(* A fetched text is the sequence of its pattern occurrences in textual    *)
(* order.  An occurrence is [k, url]: k = "url" a bare URL, "source" /     *)
(* "file" / "hls" a player-config entry, "iframe" an iframe tag with url   *)
(* its src.  The shape of a URL says which tests it passes:                *)
(*   "m3u8"     https URL holding ".m3u8", no quote, blank or backslash    *)
(*   "M3U8"     the same with the extension in upper case                  *)
(*   "sp_m3u8"  holds ".m3u8" after a blank or backslash                   *)
(*   "other"    holds no m3u8 extension                                    *)
(* host "" marks a relative reference.                                     *)

Url(id, shape, host) == [id |-> id, shape |-> shape, host |-> host]
NoUrl == Url(0, "none", "")
PageUrl == Url(0, "other", "page")

PlayerKeys == {"source", "file", "hls"}

\* _re_m3u8 (IGNORECASE) matches inside this URL
MatchesM3u8(u) == u.host # "" /\ u.shape \in {"m3u8", "M3U8"}
\* ".m3u8" in src (case-sensitive)
HasM3u8Token(u) == u.shape \in {"m3u8", "sp_m3u8"}

\* re.search: the first position of the text whose flag is set, 0 if none
FirstIdx(flags) ==
    IF \E i \in 1..Len(flags) : flags[i]
    THEN CHOOSE i \in 1..Len(flags) :
            flags[i] /\ \A j \in 1..(i - 1) : ~flags[j]
    ELSE 0

IsM3u8(it) == MatchesM3u8(it.url)
IsPlayerSource(it) == it.k \in PlayerKeys
IsIframe(it) == it.k = "iframe"

find_m3u8_in_text(text) ==
    LET m == FirstIdx([i \in 1..Len(text) |-> IsM3u8(text[i])]) IN
    IF m = 0 THEN NoUrl ELSE text[m].url

find_player_source_url(text) ==
    LET m == FirstIdx([i \in 1..Len(text) |-> IsPlayerSource(text[i])]) IN
    IF m = 0 THEN NoUrl ELSE text[m].url

urljoin(base, src) ==
    IF src.host = "" THEN Url(src.id, src.shape, base.host) ELSE src

find_iframe_url_last(text, base_url) ==
    IF \E i \in 1..Len(text) : IsIframe(text[i])
    THEN urljoin(base_url,
                 text[CHOOSE i \in 1..Len(text) :
                         IsIframe(text[i])
                         /\ \A j \in (i + 1)..Len(text) : ~IsIframe(text[j])].url)
    ELSE NoUrl

find_iframe_url(text, base_url) ==
    LET m == FirstIdx([i \in 1..Len(text) |-> IsIframe(text[i])]) IN
    IF m = 0 THEN NoUrl ELSE urljoin(base_url, text[m].url)

\* _get_streams steps 2 and 3 on the page: the URL handed to
\* parse_variant_playlist (NoUrl if none) and the strategies consulted.
SearchOuterConfigFirst(text) ==
    LET src == find_player_source_url(text)
        m3u8 == find_m3u8_in_text(text)
    IN IF src # NoUrl /\ HasM3u8Token(src)
       THEN [url |-> src, tried |-> <<"page:config">>]
       ELSE [url |-> m3u8, tried |-> <<"page:config", "page:direct">>]

SearchOuter(text) ==
    LET m3u8 == find_m3u8_in_text(text)
        src == find_player_source_url(text)
    IN IF m3u8 # NoUrl
       THEN [url |-> m3u8, tried |-> <<"page:direct">>]
       ELSE IF src # NoUrl /\ HasM3u8Token(src)
            THEN [url |-> src, tried |-> <<"page:direct", "page:config">>]
            ELSE [url |-> NoUrl, tried |-> <<"page:direct", "page:config">>]

\* the same two steps on the iframe text
SearchNested(text) ==
    LET m3u8 == find_m3u8_in_text(text)
        src2 == find_player_source_url(text)
    IN IF m3u8 # NoUrl
       THEN [url |-> m3u8, tried |-> <<"iframe:direct">>]
       ELSE IF src2 # NoUrl /\ HasM3u8Token(src2)
            THEN [url |-> src2, tried |-> <<"iframe:direct", "iframe:config">>]
            ELSE [url |-> NoUrl, tried |-> <<"iframe:direct", "iframe:config">>]

\* What _get_streams hands back: the streams parsed from url, None, or an
\* exception that leaves the method.
ParsedFrom(url) == [kind |-> "streams", url |-> url]
ReturnNone == [kind |-> "none", url |-> NoUrl]
Raised == [kind |-> "raise", url |-> NoUrl]
Pending == [kind |-> "pending", url |-> NoUrl]

\* The occurrence at position p of a text with base b carries URL id b + p.
ItemsAt(id) ==
    {[k |-> "url", url |-> Url(id, sh, "cdn")] : sh \in {"m3u8", "M3U8"}}
    \cup {[k |-> key, url |-> Url(id, sh, "cdn")] :
             key \in PlayerKeys, sh \in {"m3u8", "M3U8", "sp_m3u8", "other"}}
    \cup {[k |-> "iframe", url |-> u] :
             u \in {Url(id, "other", ""), Url(id, "other", "ext"),
                    Url(id, "m3u8", "ext")}}
RECURSIVE TextsOfLen(_, _)
TextsOfLen(base, n) ==
    IF n = 0 THEN {<<>>}
    ELSE {Append(t, it) : t \in TextsOfLen(base, n - 1), it \in ItemsAt(base + n)}
Texts(base) == UNION {TextsOfLen(base, n) : n \in 0..MaxItems}

InitResolve ==
    /\ res_pc = "start"
    /\ html = <<>>
    /\ html2 = <<>>
    /\ iframe_url = NoUrl
    /\ fetched = <<>>
    /\ tried = <<>>
    /\ result = Pending
    /\ IdleRender /\ IdleSynth /\ IdleRun

\* res = self._fetch(self.url); html = res.text
FetchPage ==
    /\ res_pc = "start"
    /\ \/ /\ fetched' = Append(fetched, [url |-> PageUrl, ok |-> FALSE])
          /\ result' = Raised
          /\ res_pc' = "done"
          /\ UNCHANGED html
       \/ /\ fetched' = Append(fetched, [url |-> PageUrl, ok |-> TRUE])
          /\ html' \in Texts(0)
          /\ res_pc' = "page"
          /\ UNCHANGED result
    /\ UNCHANGED <<html2, iframe_url, tried, render_vars, synth_vars, run_vars>>

\* steps 2, 3 and the iframe lookup of step 4
SearchPage ==
    /\ res_pc = "page"
    /\ LET r == SearchOuter(html)
           iu == find_iframe_url(html, PageUrl)
       IN /\ tried' = tried \o r.tried
          /\ IF r.url # NoUrl
             THEN /\ result' = ParsedFrom(r.url)
                  /\ res_pc' = "done"
                  /\ UNCHANGED iframe_url
             ELSE /\ iframe_url' = iu
                  /\ IF iu # NoUrl
                     THEN res_pc' = "iframe" /\ UNCHANGED result
                     ELSE res_pc' = "done" /\ result' = ReturnNone
    /\ UNCHANGED <<html, html2, fetched, render_vars, synth_vars, run_vars>>

\* res2 = self._fetch(iframe_url); html2 = res2.text
FetchIframe ==
    /\ res_pc = "iframe"
    /\ \/ /\ fetched' = Append(fetched, [url |-> iframe_url, ok |-> FALSE])
          /\ result' = Raised
          /\ res_pc' = "done"
          /\ UNCHANGED html2
       \/ /\ fetched' = Append(fetched, [url |-> iframe_url, ok |-> TRUE])
          /\ html2' \in Texts(MaxItems)
          /\ res_pc' = "nested"
          /\ UNCHANGED result
    /\ UNCHANGED <<html, iframe_url, tried, render_vars, synth_vars, run_vars>>

\* steps 2 and 3 on html2, then return None
SearchIframe ==
    /\ res_pc = "nested"
    /\ LET r == SearchNested(html2)
       IN /\ tried' = tried \o r.tried
          /\ result' = IF r.url # NoUrl THEN ParsedFrom(r.url) ELSE ReturnNone
          /\ res_pc' = "done"
    /\ UNCHANGED <<html, html2, iframe_url, fetched, render_vars, synth_vars, run_vars>>

NextResolve == FetchPage \/ SearchPage \/ FetchIframe \/ SearchIframe
SpecResolve == InitResolve /\ [][NextResolve]_vars

----------------------------------------------------------------------------
(* C6: the page loaded, neither page strategy matched, the page holds an   *)
(* iframe and the fetch of the iframe URL failed: the resolver returns     *)
(* NotFound (None); the failure does not leave it as an exception.         *)

IframeFetchFailed ==
    /\ res_pc = "done"
    /\ Len(fetched) = 2
    /\ fetched[1].ok
    /\ ~fetched[2].ok

C6_IframeFetchFailureIsNotFound == IframeFetchFailed => result = ReturnNone

(* C7: the strategies are consulted in the order page:direct, page:config, *)
(* iframe:direct, iframe:config; the first that succeeds gives the result  *)
(* and none is consulted after it; the iframe is fetched only after both   *)
(* page strategies failed.                                                 *)

StrategyOrder == <<"page:direct", "page:config", "iframe:direct", "iframe:config">>

\* What a strategy finds in the texts of the state, NoUrl if it fails.
GatedConfig(text) ==
    IF \E i \in 1..Len(text) : text[i].k \in PlayerKeys
    THEN LET i == CHOOSE i \in 1..Len(text) :
                     /\ text[i].k \in PlayerKeys
                     /\ \A j \in 1..(i - 1) : text[j].k \notin PlayerKeys
         IN IF text[i].url.shape \in {"m3u8", "sp_m3u8"} THEN text[i].url ELSE NoUrl
    ELSE NoUrl
FirstDirect(text) ==
    IF \E i \in 1..Len(text) : MatchesM3u8(text[i].url)
    THEN text[CHOOSE i \in 1..Len(text) :
                 /\ MatchesM3u8(text[i].url)
                 /\ \A j \in 1..(i - 1) : ~MatchesM3u8(text[j].url)].url
    ELSE NoUrl
Finds(strategy) ==
    CASE strategy = "page:direct" -> FirstDirect(html)
      [] strategy = "page:config" -> GatedConfig(html)
      [] strategy = "iframe:direct" -> FirstDirect(html2)
      [] strategy = "iframe:config" -> GatedConfig(html2)

C7_StrategiesInFixedOrder ==
    /\ Len(tried) <= Len(StrategyOrder)
    /\ tried = SubSeq(StrategyOrder, 1, Len(tried))
    /\ \A i \in 1..(Len(tried) - 1) : Finds(tried[i]) = NoUrl
    /\ Len(fetched) = 2 =>
          Finds("page:direct") = NoUrl /\ Finds("page:config") = NoUrl
    /\ res_pc = "done" /\ result.kind = "streams" =>
          /\ tried # <<>>
          /\ result.url = Finds(tried[Len(tried)])
    /\ res_pc = "done" /\ result.kind = "none" =>
          /\ \A i \in 1..Len(tried) : Finds(tried[i]) = NoUrl
          /\ Len(tried) >= 2
          /\ Len(fetched) = 2 => tried = StrategyOrder

\* A page with a player-config file: entry that passes the gate, followed by
\* a bare .m3u8 URL: the bare URL is returned.
C7_Witness ==
    /\ res_pc = "done"
    /\ Len(html) = 2
    /\ html[1].k = "file" /\ HasM3u8Token(html[1].url)
    /\ html[2].k = "url"
    /\ result = ParsedFrom(html[2].url)
    /\ tried = <<"page:direct">>
    /\ Len(fetched) = 1

(* C10: at most two fetches per invocation: the page once, then at most    *)
(* the first iframe src of the page resolved against the page URL; an      *)
(* iframe inside the iframe text is not followed and nothing is fetched    *)
(* after a failed fetch.                                                   *)

FirstIframeSrc(text) ==
    text[CHOOSE i \in 1..Len(text) :
            text[i].k = "iframe" /\ \A j \in 1..(i - 1) : text[j].k # "iframe"].url
Absolute(src) == IF src.host = "" THEN [src EXCEPT !.host = PageUrl.host] ELSE src

C10_AtMostTwoFetches ==
    /\ Len(fetched) <= 2
    /\ res_pc # "start" => Len(fetched) >= 1 /\ fetched[1].url = PageUrl
    /\ \A i \in 1..(Len(fetched) - 1) : fetched[i].ok
    /\ Len(fetched) = 2 =>
          /\ \E i \in 1..Len(html) : html[i].k = "iframe"
          /\ fetched[2].url = Absolute(FirstIframeSrc(html))

\* Two iframes on the page, the second one relative, and an iframe inside
\* the fetched iframe text: two fetches, the second of the first iframe.
C10_Witness ==
    /\ res_pc = "done"
    /\ Len(html) = 2 /\ html[1].k = "iframe" /\ html[2].k = "iframe"
    /\ html[1].url.host = "" /\ html[2].url.host # ""
    /\ \E i \in 1..Len(html2) : html2[i].k = "iframe"
    /\ result = ReturnNone
    /\ Len(fetched) = 2

----------------------------------------------------------------------------
(* generate.py: main                                                       *)
(*                                                                         *)
(* channels is the length of config["channels"]; the channel at position i *)
(* has slug i.  processed logs each loop iteration with its outcome.       *)

\* What get_streams may hand back for one channel.
RunStreams ==
    {Streams(TRUE, FALSE, NoMV), Streams(FALSE, FALSE, NoMV), Streams(FALSE, TRUE, NoMV)}
    \cup {Streams(FALSE, TRUE, MV(ver, pls)) :
             ver \in Versions, pls \in PlaylistSeqs(MaxRunLen, 1)}

\* The path one iteration of the loop body takes.  got: get_streams
\* returned s (otherwise it raised); wm, wb: the write of the master and of
\* the best file went through (otherwise it raised).
ChannelOutcome(got, s, wm, wb) ==
    IF ~got THEN "error"
    ELSE IF s.empty THEN "no_streams"
    ELSE IF build_playlists(s).none THEN "no_playlist"
    ELSE IF ~wm THEN "master_write_error"
    ELSE IF ~wb THEN "best_write_error"
    ELSE "success"

CountSuccess(outcome, n) == IF outcome = "success" THEN n + 1 ELSE n

\* the except branch without its fail += 1
CountFailUncounted(outcome, n) ==
    IF outcome \in {"no_streams", "no_playlist"} THEN n + 1 ELSE n

CountFail(outcome, n) == IF outcome # "success" THEN n + 1 ELSE n

\* sys.exit(1) whenever a channel failed
ExitStatusAnyFailure(s, f) == IF s = 0 \/ f > 0 THEN 1 ELSE 0

ExitStatus(s, f) == IF s = 0 THEN 1 ELSE 0

InitRun ==
    /\ run_pc = "start"
    /\ channels = 0
    /\ idx = 0
    /\ success = 0
    /\ fail = 0
    /\ processed = <<>>
    /\ master_files = {}
    /\ best_files = {}
    /\ exit_code = -1
    /\ IdleRender /\ IdleSynth /\ IdleResolve

\* json.load of the config file, then success = 0, fail = 0
LoadConfig ==
    /\ run_pc = "start"
    /\ \/ /\ exit_code' = 1
          /\ run_pc' = "config_error"
          /\ UNCHANGED channels
       \/ /\ channels' \in 0..MaxChannels
          /\ run_pc' = "loop"
          /\ UNCHANGED exit_code
    /\ UNCHANGED <<idx, success, fail, processed, master_files, best_files,
                   render_vars, synth_vars, resolve_vars>>

\* one iteration of "for channel in channels"
ProcessChannel ==
    /\ run_pc = "loop"
    /\ idx < channels
    /\ \E got \in BOOLEAN, s \in RunStreams, wm \in BOOLEAN, wb \in BOOLEAN :
          LET slug == idx + 1
              outcome == ChannelOutcome(got, s, wm, wb)
          IN /\ streams' = IF got THEN s ELSE streams
             /\ gen_res' = IF got /\ ~s.empty
                           THEN Returned(build_playlists(s)) ELSE gen_res
             /\ master_files' = IF outcome \in {"best_write_error", "success"}
                                THEN master_files \cup {slug} ELSE master_files
             /\ best_files' = IF outcome = "success"
                              THEN best_files \cup {slug} ELSE best_files
             /\ success' = CountSuccess(outcome, success)
             /\ fail' = CountFail(outcome, fail)
             /\ processed' = Append(processed, [slug |-> slug, outcome |-> outcome])
             /\ idx' = slug
    /\ UNCHANGED <<run_pc, channels, exit_code, utl_res, render_vars, resolve_vars>>

\* the summary and the exit status
Summary ==
    /\ run_pc = "loop"
    /\ idx = channels
    /\ exit_code' = ExitStatus(success, fail)
    /\ run_pc' = "done"
    /\ UNCHANGED <<channels, idx, success, fail, processed, master_files,
                   best_files, render_vars, synth_vars, resolve_vars>>

NextRun == LoadConfig \/ ProcessChannel \/ Summary
SpecRun == InitRun /\ [][NextRun]_vars

----------------------------------------------------------------------------
(* C5: an empty variant list, or one whose variants are all audio-only,    *)
(* gives (None, None) from both builders, never a header-only body; the    *)
(* loop counts the channel as failed and writes no file for it.            *)

\* The streams and the builder result of the state are those of channel idx.
BuiltForCurrent ==
    /\ idx >= 1
    /\ processed[idx].outcome \notin {"error", "no_streams"}
NoVideoVariant ==
    /\ streams.has_best
    /\ ~streams.multivariant.none
    /\ \A k \in 1..Len(Pls) :
          ~Pls[k].stream_info.none /\ Pls[k].stream_info.video = "audio_only"
Failures == {i \in 1..Len(processed) : processed[i].outcome # "success"}

C5_NoVideoGivesNothing ==
    BuiltForCurrent /\ NoVideoVariant =>
        /\ gen_res = Returned(None2)
        /\ build_master_and_best(streams) = None2
        /\ idx \in Failures
        /\ fail = Cardinality(Failures)
        /\ idx \notin master_files \cup best_files

C5_Witness ==
    /\ BuiltForCurrent /\ NoVideoVariant
    /\ Len(Pls) >= 1
    /\ processed[idx].outcome = "no_playlist"
    /\ idx >= 2 /\ processed[idx - 1].outcome = "success"

(* C8: every channel is processed once, in list order, whatever the        *)
(* outcomes; no failure ends the loop early; success + fail = total at the *)
(* end, success counting the channels with both files written.             *)

C8_EveryChannelOnceInOrder ==
    /\ Len(processed) = idx
    /\ \A i \in 1..Len(processed) : processed[i].slug = i
    /\ run_pc \in {"loop", "done"} =>
          /\ idx <= channels
          /\ success + fail = idx
          /\ success = Cardinality(master_files \cap best_files)
          /\ best_files \subseteq master_files
    /\ run_pc = "done" =>
          /\ idx = channels
          /\ success + fail = channels

C8_Witness ==
    /\ run_pc = "done"
    /\ channels = 3
    /\ processed[1].outcome = "error"
    /\ processed[2].outcome = "success"
    /\ processed[3].outcome = "best_write_error"
    /\ success = 1 /\ fail = 2

(* C9: after the configuration loaded the exit status is 0 exactly when at *)
(* least one channel succeeded, also when other channels failed.           *)

Successes == {i \in 1..Len(processed) : processed[i].outcome = "success"}

C9_ExitZeroIffSomeSuccess ==
    run_pc = "done" =>
        /\ exit_code \in {0, 1}
        /\ exit_code = 0 <=> Successes # {}
        /\ exit_code = 1 <=> success = 0

C9_Witness ==
    /\ run_pc = "done"
    /\ exit_code = 0
    /\ Successes # {}
    /\ Failures # {}

====
